---- MODULE Spec2Model ----
(***************************************************************************)
(* A model of tinydb's table engine (tinydb/table.py) over a whole-state   *)
(* storage (tinydb/storages.py) with its LRU query cache (tinydb/utils.py).*)
(*                                                                         *)
(* Python values are modelled as follows.                                  *)
(*   int n            [int |-> n]            (PyInt)                       *)
(*   str s            [str |-> s]            (PyStr)                       *)
(*   None             [none |-> TRUE]                                      *)
(*   dict (ordered)   a sequence of entries [k |-> key, v |-> value]       *)
(*   a document       a function from field names to values               *)
(*   the whole state  a function from table names to table dicts           *)
(* An int and a str are never equal, as in Python: 1 in {"1": d} is False. *)
(*                                                                         *)
(* A behaviour starts with a Table just constructed over a storage that    *)
(* holds what earlier sessions persisted (a JSON file read by JSONStorage, *)
(* or nothing), and is a sequence of calls made by one caller. A call is   *)
(* one step: it runs to its end, leaves its result in ret and the state it *)
(* started from in pre; the caller takes the result in the step Return.    *)
(* A storage read gives the same whole state for MemoryStorage (the live   *)
(* mapping) and for JSONStorage (a fresh copy), as every call here writes  *)
(* back what it read and changed before it returns.                        *)
(***************************************************************************)
EXTENDS Integers, Sequences, FiniteSets, TLC

VARIABLES
    storage,        \* what Storage.read() returns: None or the whole state
    query_cache,    \* Table._query_cache: [capacity, cache]
    ret,            \* the last call on the table: its name, arguments, result
    pre             \* storage and query cache as they were before that call

vars == <<storage, query_cache, ret, pre>>

----------------------------------------------------------------------------
(* Bounds of the model *)

MaxDocs == 2        \* documents in the table's partition at the start
MaxId == 2          \* largest document ID in the partition at the start
MaxBatch == 2       \* documents given to one insert_multiple
MaxPairs == 2       \* (fields, cond) pairs given to one update_multiple
MaxCapacity == 2    \* largest capacity of an LRUCache used on its own
MaxAbs == 3         \* largest absolute value an update operation may produce
MaxStr == 3         \* longest string an update operation may produce

----------------------------------------------------------------------------
(* Python values *)

None == [none |-> TRUE]
PyInt(n) == [int |-> n]
PyStr(s) == [str |-> s]

Digits == <<"0", "1", "2", "3", "4", "5", "6", "7", "8", "9">>

RECURSIVE Decimal(_)
Decimal(n) ==
    IF n < 10 THEN Digits[n + 1]
    ELSE Decimal(n \div 10) \o Digits[(n % 10) + 1]

\* str(n) of an int n >= 0
str(n) == PyStr(Decimal(n))

\* int(k) of a key k: of a str in canonical decimal, or of an int
int(k) ==
    IF "int" \in DOMAIN k THEN k.int
    ELSE CHOOSE n \in 0..(10 * (MaxId + MaxBatch + 2)) : Decimal(n) = k.str

----------------------------------------------------------------------------
(* Python dict, in insertion order *)

EmptyDict == <<>>

DictKeys(d) == [i \in 1..Len(d) |-> d[i].k]

DictHas(d, key) == \E i \in 1..Len(d) : d[i].k = key

DictGet(d, key) == d[CHOOSE i \in 1..Len(d) : d[i].k = key].v

\* d[key] = value: a present key keeps its position
DictSet(d, key, value) ==
    IF DictHas(d, key)
    THEN [i \in 1..Len(d) |-> IF d[i].k = key THEN [k |-> key, v |-> value] ELSE d[i]]
    ELSE Append(d, [k |-> key, v |-> value])

\* del d[key]
DictDel(d, key) == SelectSeq(d, LAMBDA e : e.k # key)

----------------------------------------------------------------------------
(* Documents and predicates *)

TableName == "_default"     \* the name of the table under study
OtherName == "other"        \* another table kept in the same storage

Fields == {"a", "b"}
Values == {PyInt(0), PyInt(1)}

\* every field mapping over Fields
Docs == UNION {[D -> Values] : D \in SUBSET Fields}

\* Document(value, doc_id): a field mapping that carries its ID beside it
Document(value, doc_id) == [doc_id |-> doc_id, value |-> value]

\* The predicates callers use: where(field) == val, with the capability flag
\* "yes" (is_cacheable() is true), "no" (it is false) or "absent" (the
\* predicate has no is_cacheable).
Cond(field, val, cap) == [field |-> field, val |-> val, cap |-> cap]

A1 == Cond("a", PyInt(1), "yes")
B1 == Cond("b", PyInt(1), "yes")
A0 == Cond("a", PyInt(0), "no")
B0 == Cond("b", PyInt(0), "absent")

Conds == {A1, B1, A0, B0}

\* cond(doc)
Call(cond, doc) == cond.field \in DOMAIN doc /\ doc[cond.field] = cond.val

\* cacheable unless is_cacheable() says no: also without is_cacheable
is_cacheable_by_default(cond) == cond.cap # "no"

\* hasattr(cond, "is_cacheable") and cond.is_cacheable()
is_cacheable(cond) == cond.cap = "yes"

----------------------------------------------------------------------------
(* LRUCache: cache is the OrderedDict, least recently used first *)

LRUCache(capacity) == [capacity |-> capacity, cache |-> EmptyDict]

LRU_contains(c, key) == DictHas(c.cache, key)

\* __setitem__ with popitem(last=True): it evicts the entry just set
LRU_setitem_evicts_newest(c, key, value) ==
    LET dropped == IF DictHas(c.cache, key) THEN DictDel(c.cache, key) ELSE c.cache
        set == Append(dropped, [k |-> key, v |-> value])
    IN  IF c.capacity # None /\ Len(set) > c.capacity.int
        THEN [c EXCEPT !.cache = dropped]
        ELSE [c EXCEPT !.cache = set]

\* __setitem__ without the popitem: the cache grows past its capacity
LRU_setitem_unbounded(c, key, value) ==
    LET dropped == IF DictHas(c.cache, key) THEN DictDel(c.cache, key) ELSE c.cache
    IN  [c EXCEPT !.cache = Append(dropped, [k |-> key, v |-> value])]

LRU_setitem(c, key, value) ==
    LET dropped == IF DictHas(c.cache, key) THEN DictDel(c.cache, key) ELSE c.cache
        set == Append(dropped, [k |-> key, v |-> value])
    IN  IF c.capacity # None /\ Len(set) > c.capacity.int
        THEN [c EXCEPT !.cache = Tail(set)]
        ELSE [c EXCEPT !.cache = set]

\* __getitem__ that leaves the key where it is in the order
LRU_getitem_in_place(c, key) == [value |-> DictGet(c.cache, key), self |-> c]

\* the value of c[key], and the cache with key moved to the most recent end
LRU_getitem(c, key) ==
    LET value == DictGet(c.cache, key)
    IN  [value |-> value,
         self |-> [c EXCEPT !.cache =
                      Append(DictDel(c.cache, key), [k |-> key, v |-> value])]]

\* __delitem__ that fills the hole with the most recent entry
LRU_delitem_swap(c, key) ==
    LET n == Len(c.cache)
        i == CHOOSE j \in 1..n : c.cache[j].k = key
    IN  [c EXCEPT !.cache =
            [j \in 1..(n - 1) |-> IF j = i THEN c.cache[n] ELSE c.cache[j]]]

\* del self.cache[key], of a key the cache holds
LRU_delitem(c, key) == [c EXCEPT !.cache = DictDel(c.cache, key)]

\* MutableMapping.clear(): popitem() until the cache is empty
LRU_clear(c) == [c EXCEPT !.cache = EmptyDict]

----------------------------------------------------------------------------
(* Storage and the table's access to it *)

\* Storage.read(): None, or the whole state, a mapping of table names to tables
read(st) == st

\* the truth value of what read() returned: None and {} are false
Truthy(data) == data # None /\ DOMAIN data # {}

EmptyData == [n \in {} |-> EmptyDict]

\* data.get(name, {})
DataGet(data, name) == IF name \in DOMAIN data THEN data[name] ELSE EmptyDict

\* data = {name: table}: the other names are dropped
DataSet_alone(data, name, table) == [n \in {name} |-> table]

\* data[name] = table
DataSet(data, name, table) ==
    [n \in DOMAIN data \cup {name} |-> IF n = name THEN table ELSE data[n]]

_read_table(st) ==
    LET data == read(st)
    IN  IF Truthy(data) THEN DataGet(data, TableName) ELSE EmptyDict

RECURSIVE SeqMax(_)
SeqMax(s) ==
    IF Len(s) = 1 THEN s[1]
    ELSE LET m == SeqMax(Tail(s)) IN IF s[1] > m THEN s[1] ELSE m

\* _get_next_id without the + 1
next_id_is_max(st) ==
    LET table == _read_table(st)
    IN  IF table # EmptyDict
        THEN SeqMax([i \in 1..Len(table) |-> int(table[i].k)])
        ELSE 1

\* the result is also kept in self._next_id, which nothing reads
_get_next_id(st) ==
    LET table == _read_table(st)
    IN  IF table # EmptyDict
        THEN SeqMax([i \in 1..Len(table) |-> int(table[i].k)]) + 1
        ELSE 1

\* _update_table, up to the call of the updater: the table read from storage
update_table_data(st) ==
    LET data == IF Truthy(read(st)) THEN read(st) ELSE EmptyData
    IN  DataGet(data, TableName)

\* The updater is called with {int(k): v for k, v in table_data.items()}: a
\* new dict whose values are the very document objects of table_data. An
\* updater state is [data, objs, out]: data maps each key to the index of an
\* object, objs[i] is the content of object i (objects 1..Len(table_data)
\* are the documents of table_data, in order), out is what the updater
\* collects for its caller.
updater_arg(st) ==
    LET table_data == update_table_data(st)
    IN  [data |-> [i \in 1..Len(table_data) |->
                      [k |-> PyInt(int(table_data[i].k)), v |-> i]],
         objs |-> [i \in 1..Len(table_data) |-> table_data[i].v],
         out |-> <<>>]

\* _update_table, after the updater ran and left the objects as objs:
\* data[self._name] = table_data, then write(data). table_data is the dict
\* read from storage, not the dict the updater was given.
_update_table(st, objs) ==
    LET data == IF Truthy(read(st)) THEN read(st) ELSE EmptyData
        table_data == DataGet(data, TableName)
        written == [i \in 1..Len(table_data) |->
                       [k |-> table_data[i].k, v |-> objs[i]]]
    IN  DataSet(data, TableName, written)

\* clear_cache leaving the cache as it is
clear_cache_skipped(c) == c

clear_cache(c) == LRU_clear(c)

----------------------------------------------------------------------------
(* The table's operations. Each is the whole call: it gives the storage and *)
(* the query cache the call leaves, its result (out; None when it returns   *)
(* nothing) and the number of storage reads and writes it made.             *)

PyList(s) == [list |-> s]

\* raised is "no" when the call returns, else the name of the exception
Result(st, c, out, reads, writes) ==
    [storage |-> st, query_cache |-> c, out |-> out, reads |-> reads,
     writes |-> writes, raised |-> "no"]

Raised(st, c, exception, reads, writes) ==
    [storage |-> st, query_cache |-> c, out |-> None, reads |-> reads,
     writes |-> writes, raised |-> exception]

\* lambda data: data.update({str(doc_id): dict(document)})
insert_updater(u, doc_id, document) ==
    [u EXCEPT !.data = DictSet(u.data, str(doc_id), Len(u.objs) + 1),
              !.objs = Append(u.objs, document)]

insert(st, c, document) ==
    LET doc_id == _get_next_id(st)
        u == insert_updater(updater_arg(st), doc_id, document)
    IN  Result(_update_table(st, u.objs), clear_cache(c), doc_id, 2, 1)

\* the updater of insert_multiple: each document takes the ID _get_next_id
\* computes from storage, which the updater has not written yet
RECURSIVE insert_multiple_updater(_, _, _)
insert_multiple_updater(u, st, documents) ==
    IF documents = <<>> THEN u
    ELSE LET doc_id == _get_next_id(st)
             v == [u EXCEPT !.data = DictSet(u.data, str(doc_id), Len(u.objs) + 1),
                            !.objs = Append(u.objs, Head(documents)),
                            !.out = Append(u.out, doc_id)]
         IN  insert_multiple_updater(v, st, Tail(documents))

insert_multiple(st, c, documents) ==
    LET u == insert_multiple_updater(updater_arg(st), st, documents)
    IN  Result(_update_table(st, u.objs), clear_cache(c), u.out,
               Len(documents) + 1, 1)

\* [Document(doc, int(doc_id)) for doc_id, doc in table_data.items()]
all(st, c) ==
    LET table_data == _read_table(st)
    IN  Result(st, c,
               [i \in 1..Len(table_data) |->
                   Document(table_data[i].v, int(table_data[i].k))],
               1, 0)

\* the scan of search: the documents of table_data that cond accepts
RECURSIVE Scan(_, _)
Scan(table_data, cond) ==
    IF table_data = <<>> THEN <<>>
    ELSE LET e == Head(table_data)
             rest == Scan(Tail(table_data), cond)
         IN  IF Call(cond, e.v) THEN <<Document(e.v, int(e.k))>> \o rest ELSE rest

search(st, c, cond) ==
    IF LRU_contains(c, cond)
    THEN LET hit == LRU_getitem(c, cond)
         IN  Result(st, hit.self, hit.value, 0, 0)
    ELSE LET docs == Scan(_read_table(st), cond)
         IN  Result(st,
                    IF is_cacheable(cond) THEN LRU_setitem(c, cond, docs) ELSE c,
                    docs, 1, 0)

\* get(doc_id=doc_id): doc_id is an int, looked up among the table's keys
get_by_id(st, c, doc_id) ==
    LET table == _read_table(st)
    IN  Result(st, c,
               IF DictHas(table, PyInt(doc_id))
               THEN Document(DictGet(table, PyInt(doc_id)), doc_id)
               ELSE None,
               1, 0)

\* get(cond): the first document of search(cond), or None
get_by_cond(st, c, cond) ==
    LET r == search(st, c, cond)
    IN  [r EXCEPT !.out = IF r.out # <<>> THEN r.out[1] ELSE None]

count(st, c, cond) ==
    LET r == search(st, c, cond) IN [r EXCEPT !.out = Len(r.out)]

\* __len__ through _update_table, with an updater that changes nothing
len_writing(st, c) ==
    Result(_update_table(st, updater_arg(st).objs), c, Len(_read_table(st)), 1, 1)

len(st, c) == Result(st, c, Len(_read_table(st)), 1, 0)

\* for doc_id, doc in self._read_table().items(): yield Document
iter(st, c) == all(st, c)

\* get(doc_ids=doc_ids): the ints of doc_ids found among the table's keys
get_by_ids(st, c, doc_ids) ==
    LET table == _read_table(st)
        found == SelectSeq(doc_ids.list, LAMBDA id : DictHas(table, PyInt(id)))
    IN  Result(st, c,
               PyList([i \in 1..Len(found) |->
                          Document(DictGet(table, PyInt(found[i])), found[i])]),
               1, 0)

\* doc.update(fields): the keys of fields replace or extend those of doc
dict_update(doc, fields) ==
    [f \in DOMAIN doc \cup DOMAIN fields |->
        IF f \in DOMAIN fields THEN fields[f] ELSE doc[f]]

\* x + y on two ints or on two strs (the callers here never mix them)
PyAdd(x, y) ==
    IF "int" \in DOMAIN x THEN PyInt(x.int + y.int) ELSE PyStr(x.str \o y.str)

\* x - y on two ints
PySub(x, y) == PyInt(x.int - y.int)

\* -n on an int
PyNeg(n) == PyInt(0 - n.int)

\* doc[field] = val
setitem(doc, field, val) == dict_update(doc, [f \in {field} |-> val])

\* The update operations. delete(field), add(field, n), ... give the
\* function transform(doc); it is kept as a record of the operation's name
\* and arguments, and transform(operation, doc) is its call.
delete(field) == [op |-> "delete", field |-> field]
add(field, n) == [op |-> "add", field |-> field, n |-> n]
subtract(field, n) == [op |-> "subtract", field |-> field, n |-> n]
set(field, val) == [op |-> "set", field |-> field, val |-> val]
increment(field) == [op |-> "increment", field |-> field]
decrement(field) == [op |-> "decrement", field |-> field]

delete_transform(field, doc) ==
    IF field \in DOMAIN doc THEN [f \in DOMAIN doc \ {field} |-> doc[f]] ELSE doc

add_transform(field, n, doc) ==
    IF field \in DOMAIN doc
    THEN setitem(doc, field, PyAdd(doc[field], n))
    ELSE setitem(doc, field, n)

\* subtract setting an absent field to n instead of -n
subtract_transform_unsigned(field, n, doc) ==
    IF field \in DOMAIN doc
    THEN setitem(doc, field, PySub(doc[field], n))
    ELSE setitem(doc, field, n)

subtract_transform(field, n, doc) ==
    IF field \in DOMAIN doc
    THEN setitem(doc, field, PySub(doc[field], n))
    ELSE setitem(doc, field, PyNeg(n))

set_transform(field, val, doc) == setitem(doc, field, val)

increment_transform(field, doc) ==
    IF field \in DOMAIN doc
    THEN setitem(doc, field, PyAdd(doc[field], PyInt(1)))
    ELSE setitem(doc, field, PyInt(1))

decrement_transform(field, doc) ==
    IF field \in DOMAIN doc
    THEN setitem(doc, field, PySub(doc[field], PyInt(1)))
    ELSE setitem(doc, field, PyInt(0 - 1))

\* fields(doc), fields being one of the update operations
transform(operation, doc) ==
    CASE operation.op = "delete" -> delete_transform(operation.field, doc)
      [] operation.op = "add" -> add_transform(operation.field, operation.n, doc)
      [] operation.op = "subtract" -> subtract_transform(operation.field, operation.n, doc)
      [] operation.op = "set" -> set_transform(operation.field, operation.val, doc)
      [] operation.op = "increment" -> increment_transform(operation.field, doc)
      [] operation.op = "decrement" -> decrement_transform(operation.field, doc)

\* callable(fields): an update operation, not a mapping of fields
callable(fields) == "op" \in DOMAIN fields

\* fields(doc) if callable(fields), else doc.update(fields)
apply_fields(doc, fields) ==
    IF callable(fields) THEN transform(fields, doc) ELSE dict_update(doc, fields)

\* the two filters of update and remove joined by "or" instead of "and"
Selected_either(doc_id, doc, cond, doc_ids) ==
    \/ doc_ids = None \/ \E j \in 1..Len(doc_ids.list) : doc_ids.list[j] = doc_id
    \/ cond = None \/ Call(cond, doc)

\* (doc_ids is None or doc_id in doc_ids) and (cond is None or cond(doc))
Selected(doc_id, doc, cond, doc_ids) ==
    /\ doc_ids = None \/ \E j \in 1..Len(doc_ids.list) : doc_ids.list[j] = doc_id
    /\ cond = None \/ Call(cond, doc)

\* the updater of update, from the i-th entry of the dict it was given on
RECURSIVE update_updater(_, _, _, _, _)
update_updater(u, i, fields, cond, doc_ids) ==
    IF i > Len(u.data) THEN u
    ELSE LET doc_id == u.data[i].k.int
             obj == u.data[i].v
             v == IF Selected(doc_id, u.objs[obj], cond, doc_ids)
                  THEN [u EXCEPT !.objs[obj] = apply_fields(u.objs[obj], fields),
                                 !.out = Append(u.out, doc_id)]
                  ELSE u
         IN  update_updater(v, i + 1, fields, cond, doc_ids)

\* update returning at once, without a write, when nothing is selected
update_skips_unmatched(st, c, fields, cond, doc_ids) ==
    LET u == update_updater(updater_arg(st), 1, fields, cond, doc_ids)
    IN  IF u.out = <<>> THEN Result(st, c, u.out, 1, 0)
        ELSE Result(_update_table(st, u.objs), clear_cache(c), u.out, 1, 1)

update(st, c, fields, cond, doc_ids) ==
    LET u == update_updater(updater_arg(st), 1, fields, cond, doc_ids)
    IN  Result(_update_table(st, u.objs), clear_cache(c), u.out, 1, 1)

\* the updater of update_multiple: for each pair in turn, every entry of the
\* dict; a pair sees the documents as the pairs before it left them
RECURSIVE update_multiple_updater(_, _)
update_multiple_updater(u, updates) ==
    IF updates = <<>> THEN u
    ELSE update_multiple_updater(
             update_updater(u, 1, Head(updates).fields, Head(updates).cond, None),
             Tail(updates))

\* update_multiple with every pair's cond evaluated on the documents as they
\* were read
RECURSIVE update_multiple_updater_stale(_, _, _)
update_multiple_updater_stale(u, objs0, updates) ==
    IF updates = <<>> THEN u
    ELSE LET hit(i) == Call(Head(updates).cond, objs0[u.data[i].v])
             hits == SelectSeq([i \in 1..Len(u.data) |-> i], hit)
             v == [u EXCEPT
                     !.objs = [i \in 1..Len(u.objs) |->
                                  IF \E j \in 1..Len(u.data) : u.data[j].v = i /\ hit(j)
                                  THEN apply_fields(u.objs[i], Head(updates).fields)
                                  ELSE u.objs[i]],
                     !.out = u.out \o [j \in 1..Len(hits) |-> u.data[hits[j]].k.int]]
         IN  update_multiple_updater_stale(v, objs0, Tail(updates))

update_multiple_stale(st, c, updates) ==
    LET arg == updater_arg(st)
        u == update_multiple_updater_stale(arg, arg.objs, updates)
    IN  Result(_update_table(st, u.objs), clear_cache(c), u.out, 1, 1)

update_multiple(st, c, updates) ==
    LET u == update_multiple_updater(updater_arg(st), updates)
    IN  Result(_update_table(st, u.objs), clear_cache(c), u.out, 1, 1)

\* contains(doc_id=doc_id): doc_id, an int, looked up among the table's keys
contains_by_id(st, c, doc_id) ==
    Result(st, c, DictHas(_read_table(st), PyInt(doc_id)), 1, 0)

\* contains(cond): get(cond) is not None
contains_by_cond(st, c, cond) ==
    LET r == get_by_cond(st, c, cond) IN [r EXCEPT !.out = r.out # None]

\* the updater of remove, over list(data.keys()) as it was at the start
RECURSIVE remove_updater(_, _, _, _)
remove_updater(u, keys, cond, doc_ids) ==
    IF keys = <<>> THEN u
    ELSE LET doc_id == Head(keys).int
             v == IF Selected(doc_id, u.objs[DictGet(u.data, Head(keys))], cond, doc_ids)
                  THEN [u EXCEPT !.data = DictDel(u.data, Head(keys)),
                                 !.out = Append(u.out, doc_id)]
                  ELSE u
         IN  remove_updater(v, Tail(keys), cond, doc_ids)

remove(st, c, cond, doc_ids) ==
    LET arg == updater_arg(st)
        u == remove_updater(arg, DictKeys(arg.data), cond, doc_ids)
    IN  Result(_update_table(st, u.objs), clear_cache(c), u.out, 1, 1)

\* lambda data: data.clear()
truncate_updater(u) == [u EXCEPT !.data = EmptyDict]

truncate(st, c) ==
    LET u == truncate_updater(updater_arg(st))
    IN  Result(_update_table(st, u.objs), clear_cache(c), None, 1, 1)

\* isinstance(document, Document)
IsDocument(document) == DOMAIN document = {"doc_id", "value"}

\* update(document, cond, doc_ids), and insert(document) when that updated
\* nothing
update_or_insert(st, c, document, cond, doc_ids) ==
    LET updated == update(st, c, document, cond, doc_ids)
        inserted == insert(updated.storage, updated.query_cache, document)
    IN  IF updated.out # <<>> THEN updated
        ELSE Result(inserted.storage, inserted.query_cache, <<inserted.out>>,
                    updated.reads + inserted.reads, updated.writes + inserted.writes)

\* With a Document, dict(document) holds the fields alone (doc_id is an
\* attribute), so del document["doc_id"] raises KeyError unless the fields
\* have a key "doc_id".
upsert(st, c, document, cond) ==
    IF IsDocument(document)
    THEN IF "doc_id" \in DOMAIN document.value
         THEN update_or_insert(st, c,
                  [f \in DOMAIN document.value \ {"doc_id"} |-> document.value[f]],
                  None, PyList(<<document.doc_id>>))
         ELSE Raised(st, c, "KeyError", 0, 0)
    ELSE update_or_insert(st, c, document, cond, None)

----------------------------------------------------------------------------
(* The states the table starts in *)

RECURSIVE Ascending(_)
Ascending(S) ==
    IF S = {} THEN <<>>
    ELSE LET m == CHOOSE x \in S : \A y \in S : x <= y
         IN  <<m>> \o Ascending(S \ {m})

\* the documents found in storage at the start
InitDocs == {[a |-> PyInt(0)], [a |-> PyInt(1), b |-> PyInt(0)], [b |-> PyInt(1)]}

\* a table as earlier sessions leave it in storage: at most MaxDocs documents
\* under the keys str(id), 1 <= id <= MaxId, in ascending order
InitTables ==
    UNION {
        { LET ids == Ascending(S)
          IN  [i \in 1..Len(ids) |-> [k |-> str(ids[i]), v |-> f[ids[i]]]]
          : f \in [S -> InitDocs] }
        : S \in {T \in SUBSET (1..MaxId) : Cardinality(T) <= MaxDocs} }

OtherTable == <<[k |-> str(1), v |-> [a |-> PyInt(1)]]>>

InitStorages ==
    {None, [n \in {OtherName} |-> OtherTable]}
        \cup {[n \in {TableName, OtherName} |->
                 IF n = TableName THEN t ELSE OtherTable] : t \in InitTables}

default_query_cache_capacity == 10

\* cache_size: unbounded (None), none, one entry, or the default
CacheSizes == {None, PyInt(0), PyInt(1), PyInt(default_query_cache_capacity)}

Idle == [op |-> "idle"]

Snapshot == [storage |-> storage, query_cache |-> query_cache]

Init ==
    /\ storage \in InitStorages
    /\ query_cache \in {LRUCache(n) : n \in CacheSizes}
    /\ ret = Idle
    /\ pre = Snapshot

----------------------------------------------------------------------------
(* Calls. The caller makes one call at a time: a call runs to its end and   *)
(* leaves its result in ret, and the caller takes the result (Return)       *)
(* before its next call.                                                    *)

InsertDocs == {[a |-> PyInt(1)], [a |-> PyInt(0), b |-> PyInt(1)]}

UpdateFields == {[a |-> PyInt(1)], [b |-> PyInt(1)]}

RECURSIVE SeqsUpTo(_, _)
SeqsUpTo(S, n) ==
    IF n = 0 THEN {<<>>}
    ELSE LET shorter == SeqsUpTo(S, n - 1)
         IN  shorter \cup {Append(s, x) : s \in shorter, x \in S}

IdLists == {None, PyList(<<1>>), PyList(<<MaxId, 1>>)}

UpdateConds == {None, A1, B1}

\* the document of the update operations' examples, and its predicates
CharInt == [char |-> PyStr("a"), int |-> PyInt(1)]
CharA == Cond("char", PyStr("a"), "yes")

\* the (fields, cond) pairs of update_multiple
UpdatePairs ==
    {[fields |-> [a |-> PyInt(1)], cond |-> A0],
     [fields |-> [b |-> PyInt(1)], cond |-> A1],
     [fields |-> delete("b"), cond |-> B1]}

Done(call, r) ==
    /\ storage' = r.storage
    /\ query_cache' = r.query_cache
    /\ ret' = [call EXCEPT !.out = r.out, !.reads = r.reads, !.writes = r.writes,
                           !.raised = r.raised]
    /\ pre' = Snapshot

Called(op, args) ==
    [op |-> op, args |-> args, out |-> None, reads |-> 0, writes |-> 0, raised |-> "no"]

Insert ==
    /\ ret = Idle
    /\ \E document \in InsertDocs \cup {CharInt} :
        Done(Called("insert", [document |-> document]),
             insert(storage, query_cache, document))

InsertMultiple ==
    /\ ret = Idle
    /\ \E documents \in SeqsUpTo(InsertDocs, MaxBatch) :
        Done(Called("insert_multiple", [documents |-> documents]),
             insert_multiple(storage, query_cache, documents))

All == ret = Idle /\ Done(Called("all", <<>>), all(storage, query_cache))

Search ==
    /\ ret = Idle
    /\ \E cond \in Conds :
        Done(Called("search", [cond |-> cond]), search(storage, query_cache, cond))

Get ==
    /\ ret = Idle
    /\ \E doc_id \in 1..(MaxId + 1) :
        Done(Called("get", [doc_id |-> doc_id]), get_by_id(storage, query_cache, doc_id))

Update ==
    /\ ret = Idle
    /\ \E fields \in UpdateFields, cond \in UpdateConds, doc_ids \in IdLists :
        Done(Called("update", [fields |-> fields, cond |-> cond, doc_ids |-> doc_ids]),
             update(storage, query_cache, fields, cond, doc_ids))

UpdateMultiple ==
    /\ ret = Idle
    /\ \E updates \in SeqsUpTo(UpdatePairs, MaxPairs) :
        Done(Called("update_multiple", [updates |-> updates]),
             update_multiple(storage, query_cache, updates))

Contains ==
    /\ ret = Idle
    /\ \/ \E doc_id \in 1..(MaxId + 1) :
            Done(Called("contains", [cond |-> None, doc_id |-> PyInt(doc_id)]),
                 contains_by_id(storage, query_cache, doc_id))
       \/ \E cond \in Conds :
            Done(Called("contains", [cond |-> cond, doc_id |-> None]),
                 contains_by_cond(storage, query_cache, cond))

Remove ==
    /\ ret = Idle
    /\ \E cond \in UpdateConds, doc_ids \in IdLists :
        Done(Called("remove", [cond |-> cond, doc_ids |-> doc_ids]),
             remove(storage, query_cache, cond, doc_ids))

Truncate == ret = Idle /\ Done(Called("truncate", <<>>), truncate(storage, query_cache))

\* fields alone, an identified Document, and one whose fields have a key
\* "doc_id" of their own
UpsertDocs ==
    InsertDocs \cup {Document([a |-> PyInt(1)], 1),
                     Document([a |-> PyInt(1), doc_id |-> PyInt(1)], 1)}

Upsert ==
    /\ ret = Idle
    /\ \E document \in UpsertDocs, cond \in {None, B1} :
        Done(Called("upsert", [document |-> document, cond |-> cond]),
             upsert(storage, query_cache, document, cond))

Return ==
    /\ ret # Idle
    /\ ret' = Idle
    /\ pre' = Snapshot
    /\ UNCHANGED <<storage, query_cache>>

Next ==
    \/ Insert
    \/ InsertMultiple
    \/ All
    \/ Search
    \/ Get
    \/ Update
    \/ UpdateMultiple
    \/ Contains
    \/ Remove
    \/ Truncate
    \/ Upsert
    \/ Return

Spec == Init /\ [][Next]_vars

----------------------------------------------------------------------------
(* The update operations on their own (tinydb/operations.py). pre is the    *)
(* document before the last call of a transform and ret is that call: the   *)
(* operation and the document as the transform left it. The field "int"    *)
(* holds ints and the field "char" strs, and the operations are given       *)
(* amounts of the field's type.                                             *)

OpDocs ==
    {CharInt, [char |-> PyStr("a")], [int |-> PyInt(1)], [f \in {} |-> None]}

Amounts == {PyInt(1), PyInt(2)}

\* the values of doc are within the bounds
InRange(doc) ==
    \A f \in DOMAIN doc :
        IF "int" \in DOMAIN doc[f]
        THEN doc[f].int <= MaxAbs /\ 0 - doc[f].int <= MaxAbs
        ELSE Len(doc[f].str) <= MaxStr

Transformed(operation) ==
    /\ ret' = [operation |-> operation, out |-> transform(operation, ret.out)]
    /\ pre' = ret.out
    /\ UNCHANGED <<storage, query_cache>>

OpsInit ==
    /\ storage = None
    /\ query_cache = LRUCache(None)
    /\ pre \in OpDocs
    /\ ret = [operation |-> None, out |-> pre]

Delete ==
    \E field \in {"char", "int"} :
        /\ InRange(transform(delete(field), ret.out))
        /\ Transformed(delete(field))

Add ==
    \E operation \in {add("int", n) : n \in Amounts} \cup {add("char", PyStr("x"))} :
        /\ InRange(transform(operation, ret.out))
        /\ Transformed(operation)

Subtract ==
    \E n \in Amounts :
        /\ InRange(transform(subtract("int", n), ret.out))
        /\ Transformed(subtract("int", n))

Set ==
    \E operation \in {set("int", PyInt(0)), set("char", PyStr("a"))} :
        /\ InRange(transform(operation, ret.out))
        /\ Transformed(operation)

Increment ==
    /\ InRange(transform(increment("int"), ret.out))
    /\ Transformed(increment("int"))

Decrement ==
    /\ InRange(transform(decrement("int"), ret.out))
    /\ Transformed(decrement("int"))

OpsNext ==
    \/ Delete
    \/ Add
    \/ Subtract
    \/ Set
    \/ Increment
    \/ Decrement

OpsSpec == OpsInit /\ [][OpsNext]_vars

----------------------------------------------------------------------------
(* An LRUCache on its own (tinydb/utils.py), of a capacity from 1 to        *)
(* MaxCapacity. query_cache is the cache and ret the calls made on it so    *)
(* far, in order: [op |-> "set" or "get", key |-> the key].                 *)

CacheKeys == {Cond(f, v, "yes") : f \in Fields, v \in Values}

LRUInit ==
    /\ storage = None
    /\ pre = None
    /\ query_cache \in {LRUCache(PyInt(n)) : n \in 1..MaxCapacity}
    /\ ret = <<>>

\* cache[key] = value
SetItem ==
    /\ Len(ret) < query_cache.capacity.int + 2
    /\ \E key \in CacheKeys :
        /\ query_cache' = LRU_setitem(query_cache, key, <<>>)
        /\ ret' = Append(ret, [op |-> "set", key |-> key])
    /\ UNCHANGED <<storage, pre>>

\* cache[key], of a key the cache holds
GetItem ==
    /\ Len(ret) < query_cache.capacity.int + 2
    /\ \E key \in CacheKeys :
        /\ LRU_contains(query_cache, key)
        /\ query_cache' = LRU_getitem(query_cache, key).self
        /\ ret' = Append(ret, [op |-> "get", key |-> key])
    /\ UNCHANGED <<storage, pre>>

LRUNext == SetItem \/ GetItem

LRUSpec == LRUInit /\ [][LRUNext]_vars

----------------------------------------------------------------------------
(* The table over a storage that can fail, and with update operations that *)
(* can fail. storage is here the Storage object: its class and what it     *)
(* holds. MemoryStorage.read() returns the live mapping, so what an updater *)
(* changes in the documents is in storage at once; JSONStorage.read()       *)
(* returns a fresh copy, and its write() can raise, before it opens the     *)
(* file or after it truncated it.                                           *)

Backends == {"MemoryStorage", "JSONStorage"}

\* doc[field] += n, -= n, += 1, -= 1 raises TypeError: the operands are not
\* two ints, or for add two strs
transform_raises(operation, doc) ==
    /\ operation.op \in {"add", "subtract", "increment", "decrement"}
    /\ operation.field \in DOMAIN doc
    /\ LET x == doc[operation.field]
       IN  CASE operation.op = "add" ->
                    ("int" \in DOMAIN x) # ("int" \in DOMAIN operation.n)
             [] operation.op = "subtract" ->
                    "str" \in DOMAIN x \/ "str" \in DOMAIN operation.n
             [] OTHER -> "str" \in DOMAIN x

\* the updater of update where fields(doc) can raise: the documents before
\* the one that raised stay changed, the exception leaves the loop
RECURSIVE update_updater_raising(_, _, _, _, _)
update_updater_raising(u, i, fields, cond, doc_ids) ==
    IF i > Len(u.data) THEN [u |-> u, raised |-> "no"]
    ELSE LET doc_id == u.data[i].k.int
             obj == u.data[i].v
         IN  IF ~Selected(doc_id, u.objs[obj], cond, doc_ids)
             THEN update_updater_raising(u, i + 1, fields, cond, doc_ids)
             ELSE IF callable(fields) /\ transform_raises(fields, u.objs[obj])
             THEN [u |-> u, raised |-> "TypeError"]
             ELSE update_updater_raising(
                      [u EXCEPT !.objs[obj] = apply_fields(u.objs[obj], fields),
                                !.out = Append(u.out, doc_id)],
                      i + 1, fields, cond, doc_ids)

\* what the storage holds once the updater has left the documents as objs
\* and nothing was written: the live mapping has the changes, the file not
unwritten(backend, st, objs) ==
    IF backend = "MemoryStorage" /\ Truthy(read(st)) /\ TableName \in DOMAIN st
    THEN _update_table(st, objs)
    ELSE st

\* what a JSON file holds after a write that raised: what it held, or a
\* truncated text, which read() gives as None
failed_write(st) == {st, None}

\* update on a storage of the class backend whose write raises unless
\* write_ok: the results the call can have
update_on(backend, write_ok, st, c, fields, cond, doc_ids) ==
    LET r == update_updater_raising(updater_arg(st), 1, fields, cond, doc_ids)
    IN  IF r.raised # "no"
        THEN {Raised(unwritten(backend, st, r.u.objs), c, r.raised, 1, 0)}
        ELSE IF ~write_ok
        THEN {Raised(s, c, "OSError", 1, 1) :
                 s \in failed_write(unwritten(backend, st, r.u.objs))}
        ELSE {Result(_update_table(st, r.u.objs), clear_cache(c), r.u.out, 1, 1)}

\* truncate on such a storage
truncate_on(backend, write_ok, st, c) ==
    IF ~write_ok
    THEN {Raised(s, c, "OSError", 1, 1) : s \in failed_write(st)}
    ELSE {truncate(st, c)}

IntConds == {Cond("int", PyInt(1), "yes"), Cond("int", PyInt(0), "yes")}

FaultTables ==
    {<<[k |-> str(1), v |-> [int |-> PyInt(1)]],
       [k |-> str(2), v |-> [int |-> PyStr("x")]]>>,
     <<[k |-> str(1), v |-> [int |-> PyInt(1)]],
       [k |-> str(2), v |-> [int |-> PyInt(0)]]>>,
     <<[k |-> str(2), v |-> [char |-> PyStr("a")]]>>}

FaultFields == {subtract("int", PyInt(1)), add("int", PyInt(1)), [int |-> PyInt(1)]}

\* a write raises in a JSONStorage only: MemoryStorage.write is an assignment
WriteOutcomes(backend) == IF backend = "JSONStorage" THEN BOOLEAN ELSE {TRUE}

\* the call's result r, its storage as the Storage object of the same class
OnBackend(r) ==
    [r EXCEPT !.storage = [backend |-> storage.backend, state |-> r.storage]]

FaultInit ==
    /\ storage \in {[backend |-> b, state |-> st] :
                       b \in Backends,
                       st \in {None} \cup {[n \in {TableName} |-> t] : t \in FaultTables}}
    /\ query_cache = LRUCache(PyInt(default_query_cache_capacity))
    /\ ret = Idle
    /\ pre = Snapshot

SearchOn ==
    /\ ret = Idle
    /\ \E cond \in IntConds :
        Done(Called("search", [cond |-> cond]),
             OnBackend(search(storage.state, query_cache, cond)))

UpdateOn ==
    /\ ret = Idle
    /\ \E fields \in FaultFields, doc_ids \in {None, PyList(<<1>>)},
          write_ok \in WriteOutcomes(storage.backend) :
        \E r \in update_on(storage.backend, write_ok, storage.state, query_cache,
                           fields, None, doc_ids) :
            /\ \A i \in 1..Len(_read_table(r.storage)) :
                   InRange(_read_table(r.storage)[i].v)
            /\ Done(Called("update", [fields |-> fields, cond |-> None,
                                      doc_ids |-> doc_ids]),
                    OnBackend(r))

TruncateOn ==
    /\ ret = Idle
    /\ \E write_ok \in WriteOutcomes(storage.backend) :
        \E r \in truncate_on(storage.backend, write_ok, storage.state, query_cache) :
            Done(Called("truncate", <<>>), OnBackend(r))

FaultNext ==
    \/ SearchOn
    \/ UpdateOn
    \/ TruncateOn
    \/ Return

FaultSpec == FaultInit /\ [][FaultNext]_vars

----------------------------------------------------------------------------
(* Two callers on one persisted target. Each caller is a Table instance of  *)
(* its own, with its own query cache, over a storage that hands out an      *)
(* independent copy of the persisted state (JSONStorage.read parses the     *)
(* file anew). An update is the read-modify-write cycle of _update_table:   *)
(* the caller reads the whole state and transforms its copy, and later      *)
(* writes the whole copy back. Here ret holds each caller's position and    *)
(* copy, query_cache each caller's cache, and pre the state at the start    *)
(* and the order of the steps taken.                                        *)

Callers == {"A", "B"}

RaceTables ==
    {<<[k |-> str(1), v |-> [int |-> PyInt(1)]],
       [k |-> str(2), v |-> [int |-> PyInt(1)]]>>,
     <<[k |-> str(1), v |-> [int |-> PyInt(1)] @@ [char |-> PyStr("a")]],
       [k |-> str(2), v |-> [int |-> PyInt(0)]]>>}

RaceFields == {[int |-> PyInt(2)], [char |-> PyStr("b")], increment("int")}

Step(caller, step) == [caller |-> caller, step |-> step]

RaceInit ==
    /\ storage \in {[n \in {TableName} |-> t] : t \in RaceTables}
    /\ query_cache = [c \in Callers |-> LRUCache(PyInt(default_query_cache_capacity))]
    /\ ret = [c \in Callers |-> [pc |-> "idle"]]
    /\ pre = [storage |-> storage, log |-> <<>>]

\* a write that would redo the transform on the state persisted now
written_locked(c) ==
    update(storage, query_cache[c], ret[c].args.fields, None, ret[c].args.doc_ids).storage

\* storage.write(tables): the whole state the caller read and transformed
written(c) == ret[c].tables

\* tables = self._storage.read() ... updater(table): up to the write
ReadModify ==
    /\ Len(pre.log) < 2 * Cardinality(Callers)
    /\ \E c \in Callers, fields \in RaceFields, doc_id \in 1..MaxId :
        LET r == update(storage, query_cache[c], fields, None, PyList(<<doc_id>>))
        IN  /\ ret[c].pc = "idle"
            /\ ret' = [ret EXCEPT ![c] =
                          [pc |-> "read",
                           args |-> [fields |-> fields, doc_ids |-> PyList(<<doc_id>>)],
                           tables |-> r.storage, out |-> r.out, raised |-> r.raised]]
            /\ pre' = [pre EXCEPT !.log = Append(@, Step(c, "read"))]
            /\ UNCHANGED <<storage, query_cache>>

\* self._storage.write(tables), and update's clear_cache()
WriteBack ==
    /\ Len(pre.log) >= 1
    /\ \E c \in Callers :
        /\ ret[c].pc = "read"
        /\ storage' = written(c)
        /\ query_cache' = [query_cache EXCEPT ![c] = clear_cache(@)]
        /\ ret' = [ret EXCEPT ![c].pc = "done"]
        /\ pre' = [pre EXCEPT !.log = Append(@, Step(c, "write"))]

RaceNext ==
    \/ ReadModify
    \/ WriteBack

RaceSpec == RaceInit /\ [][RaceNext]_vars

----------------------------------------------------------------------------
(* An LRUCache of any capacity, None and 0 included, under every call of    *)
(* its interface. query_cache is the cache, pre the cache as it was before  *)
(* the last call and ret the last call: its name, key and value, what it    *)
(* returned and what it raised.                                             *)

Capacities == {None} \cup {PyInt(n) : n \in 0..MaxCapacity}

RecencyKeys == {Cond("int", PyInt(n), "yes") : n \in 0..MaxCapacity}

CachedLists == {<<>>, <<[doc_id |-> 1, value |-> [int |-> PyInt(1)]]>>}

CacheCall(op, key, value, out, raised) ==
    [op |-> op, key |-> key, value |-> value, out |-> out, raised |-> raised]

CacheInit ==
    /\ storage = None
    /\ query_cache \in {LRUCache(n) : n \in Capacities}
    /\ pre = query_cache
    /\ ret = CacheCall("init", None, None, None, "no")

\* cache[key] = value
DoSet ==
    /\ pre' = query_cache
    /\ \E key \in RecencyKeys, value \in CachedLists :
        /\ query_cache' = LRU_setitem(query_cache, key, value)
        /\ ret' = CacheCall("set", key, value, None, "no")
    /\ UNCHANGED storage

\* cache[key]: self.cache.pop(key) raises KeyError for a key not held
DoGet ==
    /\ pre' = query_cache
    /\ \E key \in RecencyKeys :
        IF LRU_contains(query_cache, key)
        THEN /\ query_cache' = LRU_getitem(query_cache, key).self
             /\ ret' = CacheCall("get", key, None, LRU_getitem(query_cache, key).value, "no")
        ELSE /\ query_cache' = query_cache
             /\ ret' = CacheCall("get", key, None, None, "KeyError")
    /\ UNCHANGED storage

\* key in cache
DoContains ==
    /\ pre' = query_cache
    /\ \E key \in RecencyKeys :
        /\ query_cache' = query_cache
        /\ ret' = CacheCall("contains", key, None, LRU_contains(query_cache, key), "no")
    /\ UNCHANGED storage

\* del cache[key]: del self.cache[key] raises KeyError for a key not held
DoDelete ==
    /\ pre' = query_cache
    /\ \E key \in RecencyKeys :
        IF LRU_contains(query_cache, key)
        THEN /\ query_cache' = LRU_delitem(query_cache, key)
             /\ ret' = CacheCall("delete", key, None, None, "no")
        ELSE /\ query_cache' = query_cache
             /\ ret' = CacheCall("delete", key, None, None, "KeyError")
    /\ UNCHANGED storage

\* cache.clear()
DoClear ==
    /\ pre' = query_cache
    /\ query_cache' = LRU_clear(query_cache)
    /\ ret' = CacheCall("clear", None, None, None, "no")
    /\ UNCHANGED storage

CacheNext ==
    \/ DoSet
    \/ DoGet
    \/ DoContains
    \/ DoDelete
    \/ DoClear

CacheSpec == CacheInit /\ [][CacheNext]_vars

----------------------------------------------------------------------------
(* A CachingMiddleware over a storage (tinydb/middlewares.py). storage is   *)
(* the state the underlying storage holds, query_cache the middleware: its  *)
(* cache and its _cache_modified_count. ret is the last call, with what it  *)
(* returned, whether it wrote the underlying storage and the state it       *)
(* passed; pre keeps the last state passed to write (None before the first  *)
(* write), the number of writes since the underlying storage was written    *)
(* last, and whether close was called.                                      *)

WRITE_CACHE_SIZE == 1000

MiddlewareStates ==
    {[n \in {TableName} |-> <<[k |-> str(1), v |-> [int |-> PyInt(i)]]>>] : i \in 0..1}

CachingMiddleware ==
    [cache |-> None, _cache_modified_count |-> 0]

Served(m, st, out, wrote, passed) ==
    [self |-> m, storage |-> st, out |-> out, wrote |-> wrote, passed |-> passed]

CachingMiddleware_read(m, st) ==
    LET cache == IF m.cache = None THEN st ELSE m.cache
    IN  Served([m EXCEPT !.cache = cache], st,
               IF cache # None THEN cache ELSE EmptyData, FALSE, None)

CachingMiddleware_flush(m, st) ==
    IF m.cache # None
    THEN Served([m EXCEPT !._cache_modified_count = 0], m.cache, None, TRUE, m.cache)
    ELSE Served(m, st, None, FALSE, None)

\* write that flushes one write late: > for >=
CachingMiddleware_write_late(m, st, data) ==
    LET counted == [m EXCEPT !.cache = data,
                         !._cache_modified_count = m._cache_modified_count + 1]
    IN  IF counted._cache_modified_count > WRITE_CACHE_SIZE
        THEN CachingMiddleware_flush(counted, st)
        ELSE Served(counted, st, None, FALSE, None)

CachingMiddleware_write(m, st, data) ==
    LET counted == [m EXCEPT !.cache = data,
                         !._cache_modified_count = m._cache_modified_count + 1]
    IN  IF counted._cache_modified_count >= WRITE_CACHE_SIZE
        THEN CachingMiddleware_flush(counted, st)
        ELSE Served(counted, st, None, FALSE, None)

\* flush, then storage.close(), which leaves what the storage holds
CachingMiddleware_close(m, st) == CachingMiddleware_flush(m, st)

MiddlewareCall(op, data, r, nth) ==
    [op |-> op, data |-> data, out |-> r.out, wrote |-> r.wrote, passed |-> r.passed,
     nth |-> nth]

MiddlewareInit ==
    /\ storage \in {None} \cup MiddlewareStates
    /\ query_cache = CachingMiddleware
    /\ ret = MiddlewareCall("init", None, Served(query_cache, storage, None, FALSE, None), 0)
    /\ pre = [last |-> None, since |-> 0, closed |-> FALSE]

Serve(op, data, r) ==
    /\ storage' = r.storage
    /\ query_cache' = r.self
    /\ ret' = MiddlewareCall(op, data, r, IF op = "write" THEN pre.since + 1 ELSE 0)
    /\ pre' = [last |-> IF op = "write" THEN data ELSE pre.last,
               since |-> IF r.wrote THEN 0
                         ELSE IF op = "write" THEN pre.since + 1 ELSE pre.since,
               closed |-> op = "close"]

MiddlewareRead ==
    /\ ~pre.closed
    /\ Serve("read", None, CachingMiddleware_read(query_cache, storage))

MiddlewareWrite ==
    /\ ~pre.closed
    /\ pre.since <= WRITE_CACHE_SIZE
    /\ \E data \in MiddlewareStates :
        Serve("write", data, CachingMiddleware_write(query_cache, storage, data))

MiddlewareFlush ==
    /\ ~pre.closed
    /\ Serve("flush", None, CachingMiddleware_flush(query_cache, storage))

MiddlewareClose ==
    /\ ~pre.closed
    /\ Serve("close", None, CachingMiddleware_close(query_cache, storage))

MiddlewareNext ==
    \/ MiddlewareRead
    \/ MiddlewareWrite
    \/ MiddlewareFlush
    \/ MiddlewareClose

MiddlewareSpec == MiddlewareInit /\ [][MiddlewareNext]_vars

----------------------------------------------------------------------------
(* The table under the operations that only read: all, search, get,         *)
(* contains, count, len, iteration, and clear_cache. The state and the      *)
(* calls are those of Spec.                                                 *)

GetBy ==
    /\ ret = Idle
    /\ \/ \E cond \in Conds :
            Done(Called("get", [cond |-> cond, doc_ids |-> None]),
                 get_by_cond(storage, query_cache, cond))
       \/ \E doc_ids \in IdLists \ {None} :
            Done(Called("get", [cond |-> None, doc_ids |-> doc_ids]),
                 get_by_ids(storage, query_cache, doc_ids))

Count ==
    /\ ret = Idle
    /\ \E cond \in Conds :
        Done(Called("count", [cond |-> cond]), count(storage, query_cache, cond))

Length == ret = Idle /\ Done(Called("len", <<>>), len(storage, query_cache))

Iterate == ret = Idle /\ Done(Called("iter", <<>>), iter(storage, query_cache))

ClearCache ==
    /\ ret = Idle
    /\ Done(Called("clear_cache", <<>>), Result(storage, clear_cache(query_cache), None, 0, 0))

ReadNext ==
    \/ All
    \/ Search
    \/ Get
    \/ GetBy
    \/ Contains
    \/ Count
    \/ Length
    \/ Iterate
    \/ ClearCache
    \/ Return

ReadSpec == Init /\ [][ReadNext]_vars

----------------------------------------------------------------------------
(* The table and a caller that changes what search returned to it. search   *)
(* returns the list object it stores in the query cache, and on a hit the   *)
(* list object the cache holds: while the caller holds the result (ret) and *)
(* the cache holds the predicate, the two are one object, and a change the  *)
(* caller makes to it shows in both. The Documents of the list are built by *)
(* search from the stored mappings, so storage shares nothing with them.    *)

\* the object search returned is the one the query cache holds for cond
returned_is_cached(c, cond) == LRU_contains(c, cond)

Changes == {"append", "clear", "setitem"}

\* what the caller's change makes of the list: docs.append('junk'),
\* docs.clear(), docs[0]['b'] = 0
changed(docs, how) ==
    CASE how = "append" -> Append(docs, PyStr("junk"))
      [] how = "clear" -> <<>>
      [] how = "setitem" ->
            IF docs = <<>> THEN docs
            ELSE [docs EXCEPT ![1].value = dict_update(@, [b |-> PyInt(0)])]

\* the caller changes the list it holds, once: a list that is as search
\* built it
ChangeResult ==
    /\ ret # Idle
    /\ ret.op = "search"
    /\ ret.out = Scan(_read_table(storage), ret.args.cond)
    /\ \E how \in Changes :
        LET docs == changed(ret.out, how)
            cache == IF returned_is_cached(query_cache, ret.args.cond)
                     THEN [query_cache EXCEPT !.cache =
                              DictSet(@, ret.args.cond, docs)]
                     ELSE query_cache
        IN  Done(Called("change", [cond |-> ret.args.cond, how |-> how]),
                 Result(storage, cache, docs, 0, 0))

AliasNext ==
    \/ Search
    \/ All
    \/ ChangeResult
    \/ Return

AliasSpec == Init /\ [][AliasNext]_vars

----------------------------------------------------------------------------
(* The notions the properties below are stated in, read off the state *)

\* the table's partition of a persisted state: its documents in storage order
Partition(st) ==
    IF st = None \/ TableName \notin DOMAIN st THEN <<>> ELSE st[TableName]

\* the IDs of the documents stored in the table
StoredIds(st) == {int(Partition(st)[i].k) : i \in 1..Len(Partition(st))}

MaxOf(S) == CHOOSE m \in S : \A x \in S : x <= m

\* the documents of a partition that satisfy cond, as Documents, in storage order
Matching(t, cond) ==
    LET hits == SelectSeq(t, LAMBDA e : cond.field \in DOMAIN e.v /\ e.v[cond.field] = cond.val)
    IN  [i \in 1..Len(hits) |-> [doc_id |-> int(hits[i].k), value |-> hits[i].v]]

\* the filter of update and remove: in doc_ids when given, and matching
\* cond when given
Chosen(e, cond, doc_ids) ==
    /\ doc_ids # None => int(e.k) \in {doc_ids.list[j] : j \in 1..Len(doc_ids.list)}
    /\ cond # None => (cond.field \in DOMAIN e.v /\ e.v[cond.field] = cond.val)

Mutators ==
    {"insert", "insert_multiple", "update", "update_multiple", "upsert", "remove",
     "truncate"}

----------------------------------------------------------------------------
(* C1: ID uniqueness. In every state the documents stored in the table have *)
(* pairwise different IDs. An ID that insert or insert_multiple hands out   *)
(* is the ID of no document that was stored when it was handed out, the IDs *)
(* one insert_multiple hands out are pairwise different, and the document   *)
(* an insert has just added is live: the next insert returns another ID.    *)
C1_IdUniqueness ==
    LET t == Partition(storage)
        live == StoredIds(pre.storage)
    IN  /\ \A i, j \in 1..Len(t) : int(t[i].k) = int(t[j].k) => i = j
        /\ ret.op = "insert" =>
               /\ ret.out \notin live
               /\ \A document \in InsertDocs :
                      insert(storage, query_cache, document).out # ret.out
        /\ ret.op = "insert_multiple" =>
               /\ \A i \in 1..Len(ret.out) : ret.out[i] \notin live
               /\ \A i, j \in 1..Len(ret.out) : ret.out[i] = ret.out[j] => i = j

(* C2: insert(fields) returning id leaves the table's partition as it was   *)
(* before the call plus one entry, str(id) -> fields, at the end.           *)
C2_InsertStores ==
    ret.op = "insert" =>
        Partition(storage) =
            Append(Partition(pre.storage),
                   [k |-> PyStr(Decimal(ret.out)), v |-> ret.args.document])

(* C3: round trip. Right after insert(f) returned id, get(doc_id=id) gives  *)
(* a document with the fields f and the ID id.                              *)
C3_RoundTrip ==
    ret.op = "insert" =>
        get_by_id(storage, query_cache, ret.out).out =
            [doc_id |-> ret.out, value |-> ret.args.document]

(* C4: monotonic ID assignment. insert returns max(S) + 1 when the set S of *)
(* stored IDs is not empty, and 1 when the table stores no document.        *)
C4_MonotonicId ==
    ret.op = "insert" =>
        LET S == StoredIds(pre.storage)
        IN  ret.out = IF S = {} THEN 1 ELSE MaxOf(S) + 1

\* insert on a table that stores document 2 alone returned 3
C4_Witness ==
    /\ ret.op = "insert"
    /\ StoredIds(pre.storage) = {2}
    /\ ret.out = 3

(* C5: insert_multiple(docs) returns one ID per document, strictly          *)
(* increasing, and afterwards the i-th document is stored under the i-th ID.*)
C5_InsertMultiple ==
    ret.op = "insert_multiple" =>
        LET docs == ret.args.documents
            t == Partition(storage)
        IN  /\ Len(ret.out) = Len(docs)
            /\ \A i, j \in 1..Len(ret.out) : i < j => ret.out[i] < ret.out[j]
            /\ \A i \in 1..Len(docs) :
                   \E n \in 1..Len(t) : int(t[n].k) = ret.out[i] /\ t[n].v = docs[i]

(* C6: cache coherence. When insert, insert_multiple, update, upsert,       *)
(* remove or truncate has returned, the query cache is empty; every result  *)
(* the query cache holds is the sequence of documents that match its        *)
(* predicate in the persisted state, and so is every result of search.      *)
C6_CacheCoherence ==
    /\ (ret.op \in Mutators /\ ret.raised = "no") => query_cache.cache = <<>>
    /\ \A i \in 1..Len(query_cache.cache) :
           query_cache.cache[i].v =
               Matching(Partition(storage), query_cache.cache[i].k)
    /\ ret.op = "search" => ret.out = Matching(Partition(storage), ret.args.cond)

\* update returned with the cache empty, and a result cached before the call
\* is not what its predicate matches now
C6_Witness ==
    /\ ret.op = "update"
    /\ query_cache.cache = <<>>
    /\ \E i \in 1..Len(pre.query_cache.cache) :
           pre.query_cache.cache[i].v #
               Matching(Partition(storage), pre.query_cache.cache[i].k)

(* C7 as claimed: right after search(p) with a cacheable p, a second        *)
(* search(p) returns the same sequence and reads storage zero times.        *)
C7_CacheHitAnyCapacity ==
    (ret.op = "search" /\ ret.args.cond.cap = "yes") =>
        LET second == search(storage, query_cache, ret.args.cond)
        IN  second.out = ret.out /\ second.reads = 0

(* C7 as amended: right after search(p) with a cacheable p, a second        *)
(* search(p) returns the same sequence, and when the capacity of the query  *)
(* cache is not 0 it reads storage zero times.                              *)
C7_CacheHit ==
    (ret.op = "search" /\ ret.args.cond.cap = "yes") =>
        LET second == search(storage, query_cache, ret.args.cond)
        IN  /\ second.out = ret.out
            /\ query_cache.capacity # PyInt(0) => second.reads = 0

\* a first search scanned storage with another predicate's result in a cache
\* of capacity 1, found documents, and a second search would read nothing
C7_Witness ==
    /\ ret.op = "search"
    /\ ret.args.cond.cap = "yes"
    /\ ret.reads = 1
    /\ ret.out # <<>>
    /\ query_cache.capacity = PyInt(1)
    /\ pre.query_cache.cache # <<>>
    /\ search(storage, query_cache, ret.args.cond).reads = 0

(* C8: update(fields, cond, doc_ids) keeps the table's keys and their       *)
(* order; a document whose ID is in doc_ids (when given) and that matches   *)
(* cond (when given) takes the values of fields and keeps its other keys;   *)
(* every other document is unchanged; the result is the IDs of the changed  *)
(* documents in storage order.                                              *)
C8_Update ==
    ret.op = "update" =>
        LET t0 == Partition(pre.storage)
            t1 == Partition(storage)
            a == ret.args
            chosen == SelectSeq(t0, LAMBDA e : Chosen(e, a.cond, a.doc_ids))
        IN  /\ Len(t1) = Len(t0)
            /\ \A i \in 1..Len(t0) :
                   /\ t1[i].k = t0[i].k
                   /\ IF Chosen(t0[i], a.cond, a.doc_ids)
                      THEN /\ DOMAIN t1[i].v = DOMAIN t0[i].v \cup DOMAIN a.fields
                           /\ \A f \in DOMAIN a.fields : t1[i].v[f] = a.fields[f]
                           /\ \A f \in DOMAIN t0[i].v \ DOMAIN a.fields :
                                  t1[i].v[f] = t0[i].v[f]
                      ELSE t1[i].v = t0[i].v
            /\ ret.out = [i \in 1..Len(chosen) |-> int(chosen[i].k)]

\* update with both filters changed a document and passed over one that is
\* in doc_ids without matching cond
C8_Witness ==
    /\ ret.op = "update"
    /\ ret.args.cond # None
    /\ ret.args.doc_ids # None
    /\ ret.out # <<>>
    /\ storage # pre.storage
    /\ \E i \in 1..Len(Partition(pre.storage)) :
           LET e == Partition(pre.storage)[i]
           IN  Chosen(e, None, ret.args.doc_ids) /\ ~Chosen(e, ret.args.cond, None)

(* C9: remove(cond, doc_ids) leaves in storage exactly the documents the    *)
(* filter does not choose, in their order, and returns the IDs of the       *)
(* chosen documents.                                                        *)
C9_Remove ==
    ret.op = "remove" =>
        LET t0 == Partition(pre.storage)
            a == ret.args
            chosen == SelectSeq(t0, LAMBDA e : Chosen(e, a.cond, a.doc_ids))
        IN  /\ Partition(storage) =
                   SelectSeq(t0, LAMBDA e : ~Chosen(e, a.cond, a.doc_ids))
            /\ ret.out = [i \in 1..Len(chosen) |-> int(chosen[i].k)]

(* C10: after truncate() all() is empty, the length of the table is 0 and   *)
(* count(p) is 0 for every predicate p.                                     *)
C10_Truncate ==
    ret.op = "truncate" =>
        /\ all(storage, query_cache).out = <<>>
        /\ len(storage, query_cache).out = 0
        /\ \A p \in Conds : count(storage, query_cache, p).out = 0

(* C11: upsert idempotence by match. Right after upsert(doc, p) returned,   *)
(* p matching doc and so every document that call produced, a second        *)
(* upsert(doc, p) makes no insert (it writes once, for its update), returns *)
(* the IDs the first call returned and leaves as many documents stored.     *)
C11_UpsertIdempotence ==
    (/\ ret.op = "upsert"
     /\ ret.raised = "no"
     /\ ret.args.cond # None
     /\ ~IsDocument(ret.args.document)
     /\ Call(ret.args.cond, ret.args.document)) =>
        LET second == upsert(storage, query_cache, ret.args.document, ret.args.cond)
        IN  /\ second.writes = 1
            /\ second.out = ret.out
            /\ Len(Partition(second.storage)) = Len(Partition(storage))

(* C12: upsert(Document(fields, i)) without a predicate returns normally;   *)
(* when a document i was stored it returns [i] and document i has taken the *)
(* fields; otherwise it returns one new ID under which the fields are       *)
(* stored.                                                                  *)
C12_UpsertDocument ==
    (ret.op = "upsert" /\ IsDocument(ret.args.document)) =>
        LET i == ret.args.document.doc_id
            fields == ret.args.document.value
            t == Partition(storage)
        IN  /\ ret.raised = "no"
            /\ Len(ret.out) = 1
            /\ (i \in StoredIds(pre.storage)) => ret.out[1] = i
            /\ \E n \in 1..Len(t) :
                   /\ int(t[n].k) = ret.out[1]
                   /\ \A f \in DOMAIN fields :
                          f \in DOMAIN t[n].v /\ t[n].v[f] = fields[f]

\* the examples of the update operations on {char: "a", int: 1}: the
\* operation, a predicate the transformed document satisfies, that document
OperationCases ==
    {[fields |-> delete("int"), cond |-> CharA,
      expected |-> [char |-> PyStr("a")]],
     [fields |-> add("int", PyInt(5)), cond |-> CharA,
      expected |-> [char |-> PyStr("a"), int |-> PyInt(6)]],
     [fields |-> add("char", PyStr("xyz")), cond |-> Cond("char", PyStr("axyz"), "yes"),
      expected |-> [char |-> PyStr("axyz"), int |-> PyInt(1)]],
     [fields |-> subtract("int", PyInt(5)), cond |-> CharA,
      expected |-> [char |-> PyStr("a"), int |-> PyInt(0 - 4)]],
     [fields |-> set("char", PyStr("xyz")), cond |-> Cond("char", PyStr("xyz"), "yes"),
      expected |-> [char |-> PyStr("xyz"), int |-> PyInt(1)]],
     [fields |-> increment("int"), cond |-> CharA,
      expected |-> [char |-> PyStr("a"), int |-> PyInt(2)]],
     [fields |-> decrement("int"), cond |-> CharA,
      expected |-> [char |-> PyStr("a"), int |-> PyInt(0)]]}

(* C13: update operations end to end. Right after insert({char: "a",        *)
(* int: 1}) into an empty table, for each operation of the examples,        *)
(* update(operation, char == "a") followed by get with a predicate the      *)
(* transformed document satisfies gives a document, the transformed one.    *)
C13_OperationsEndToEnd ==
    (/\ ret.op = "insert"
     /\ ret.args.document = CharInt
     /\ Partition(pre.storage) = <<>>) =>
        \A x \in OperationCases :
            LET u == update(storage, query_cache, x.fields, CharA, None)
                g == get_by_cond(u.storage, u.query_cache, x.cond)
            IN  g.out # None /\ g.out.value = x.expected

(* C14: update operations on an absent field. Applied to a document that   *)
(* lacks the field, add(field, n) sets it to n, subtract(field, n) to -n,   *)
(* increment to 1, decrement to -1, and delete leaves the document as it    *)
(* was; every other field keeps its value and no other field appears.       *)
C14_AbsentField ==
    (ret.operation # None /\ ret.operation.field \notin DOMAIN pre) =>
        LET o == ret.operation
            field == o.field
        IN  /\ \A f \in DOMAIN pre : f \in DOMAIN ret.out /\ ret.out[f] = pre[f]
            /\ DOMAIN ret.out \subseteq DOMAIN pre \cup {field}
            /\ o.op = "add" => field \in DOMAIN ret.out /\ ret.out[field] = o.n
            /\ o.op = "subtract" =>
                   field \in DOMAIN ret.out /\ ret.out[field] = PyInt(0 - o.n.int)
            /\ o.op = "increment" =>
                   field \in DOMAIN ret.out /\ ret.out[field] = PyInt(1)
            /\ o.op = "decrement" =>
                   field \in DOMAIN ret.out /\ ret.out[field] = PyInt(0 - 1)
            /\ o.op = "delete" => ret.out = pre

\* subtract("int", 2) on a document that has a field "char" and no "int"
\* gave it int = -2
C14_Witness ==
    /\ ret.operation # None
    /\ ret.operation = subtract("int", PyInt(2))
    /\ pre = [char |-> PyStr("a")]
    /\ ret.out = [char |-> PyStr("a"), int |-> PyInt(0 - 2)]

\* the calls i..j of the log are sets of pairwise different keys
DistinctSets(log, i, j) ==
    /\ \A n \in i..j : log[n].op = "set"
    /\ \A m, n \in i..j : log[m].key = log[n].key => m = n

\* the keys the cache holds
CachedKeys(c) == {c.cache[i].k : i \in 1..Len(c.cache)}

\* a cache of capacity N after N + 1 sets of different keys holds all of
\* them but the first
EvictsFirstSet ==
    LET N == query_cache.capacity.int
    IN  (Len(ret) = N + 1 /\ DistinctSets(ret, 1, N + 1)) =>
            CachedKeys(query_cache) = {ret[n].key : n \in 2..(N + 1)}

\* a cache of capacity N after N sets of different keys, a get of one of
\* them and the set of one more key holds the key read, and of the other
\* keys it has dropped the one set first and no other
GetProtects ==
    LET N == query_cache.capacity.int
    IN  (/\ Len(ret) = N + 2
         /\ DistinctSets(ret, 1, N)
         /\ ret[N + 1].op = "get"
         /\ ret[N + 2].op = "set"
         /\ \A n \in 1..N : ret[n].key # ret[N + 2].key) =>
            LET touched == ret[N + 1].key
                others == SelectSeq([n \in 1..N |-> ret[n].key], LAMBDA k : k # touched)
            IN  /\ touched \in CachedKeys(query_cache)
                /\ others # <<>>
                /\ CachedKeys(query_cache) =
                       ({ret[n].key : n \in 1..N} \ {others[1]}) \cup {ret[N + 2].key}

C16_ContainsId ==
    (ret.op = "contains" /\ ret.args.doc_id # None) =>
        (ret.out <=> (ret.args.doc_id.int \in StoredIds(storage)))

(* C17: search(p) with a predicate p that has no is_cacheable or whose      *)
(* is_cacheable() is false leaves the query cache as it was, and p is not   *)
(* one of its keys.                                                         *)
C17_OnlyCacheable ==
    (ret.op = "search" /\ ret.args.cond.cap # "yes") =>
        /\ query_cache = pre.query_cache
        /\ ~LRU_contains(query_cache, ret.args.cond)

\* search with a predicate without is_cacheable scanned storage and found
\* documents while the cache held another predicate's result
C17_Witness ==
    /\ ret.op = "search"
    /\ ret.args.cond.cap = "absent"
    /\ ret.reads = 1
    /\ ret.out # <<>>
    /\ query_cache.cache # <<>>

(* C18: every update makes one storage read and one storage write and       *)
(* leaves the query cache empty, also when it selects no document; what it  *)
(* writes is a whole state holding the table's partition.                   *)
C18_UpdateWritesOnce ==
    ret.op = "update" =>
        /\ ret.reads = 1
        /\ ret.writes = 1
        /\ query_cache.cache = <<>>
        /\ storage # None
        /\ TableName \in DOMAIN storage

\* update selected no document, wrote a state to a storage that had none,
\* and emptied a query cache that held a result
C18_Witness ==
    /\ ret.op = "update"
    /\ ret.out = <<>>
    /\ ret.writes = 1
    /\ pre.query_cache.cache # <<>>
    /\ query_cache.cache = <<>>
    /\ Partition(pre.storage) # <<>>

\* one (fields, cond) pair applied to a partition: the matching documents
\* transformed, the others and the order kept
ApplyPair(t, pair) ==
    [i \in 1..Len(t) |->
        IF pair.cond.field \in DOMAIN t[i].v /\ t[i].v[pair.cond.field] = pair.cond.val
        THEN [k |-> t[i].k, v |-> apply_fields(t[i].v, pair.fields)]
        ELSE t[i]]

\* the pairs applied one after the other, and the IDs each matched, in order
RECURSIVE ApplyPairs(_, _)
ApplyPairs(t, updates) ==
    IF updates = <<>> THEN [table |-> t, out |-> <<>>]
    ELSE LET hits == Matching(t, Head(updates).cond)
             rest == ApplyPairs(ApplyPair(t, Head(updates)), Tail(updates))
         IN  [table |-> rest.table,
              out |-> [i \in 1..Len(hits) |-> hits[i].doc_id] \o rest.out]

(* C19: update_multiple(updates) leaves the partition that results from     *)
(* applying the pairs one after the other, each to the documents that match *)
(* its predicate as the earlier pairs left them; it returns, pair by pair,  *)
(* the IDs that pair matched in storage order; it reads and writes once.    *)
C19_UpdateMultiple ==
    ret.op = "update_multiple" =>
        LET e == ApplyPairs(Partition(pre.storage), ret.args.updates)
        IN  /\ Partition(storage) = e.table
            /\ ret.out = e.out
            /\ ret.reads = 1
            /\ ret.writes = 1

\* update_multiple returned an ID twice: its second pair matched a document
\* that did not satisfy that pair's predicate before the call
C19_Witness ==
    /\ ret.op = "update_multiple"
    /\ Len(ret.args.updates) = 2
    /\ \E i, j \in 1..Len(ret.out) : i < j /\ ret.out[i] = ret.out[j]
    /\ \E n \in 1..Len(Partition(pre.storage)) :
           LET e == Partition(pre.storage)[n]
           IN  /\ ~Call(ret.args.updates[2].cond, e.v)
               /\ Call(ret.args.updates[2].cond, Partition(storage)[n].v)

\* the partitions of the other tables in a persisted state
OtherTables(st) ==
    IF st = None THEN EmptyData ELSE [n \in DOMAIN st \ {TableName} |-> st[n]]

(* C20: frame of the whole-state write. When insert, insert_multiple,       *)
(* update, update_multiple, upsert, remove or truncate has returned, every  *)
(* other table name has the partition it had before the call, and no other  *)
(* name was added or dropped.                                               *)
C20_Frame ==
    ret.op \in Mutators => OtherTables(storage) = OtherTables(pre.storage)

\* insert wrote a whole state that still holds the other table and now also
\* an entry for this table
C20_Witness ==
    /\ ret.op = "insert"
    /\ ret.writes = 1
    /\ pre.storage # None
    /\ TableName \notin DOMAIN pre.storage
    /\ TableName \in DOMAIN storage
    /\ OtherName \in DOMAIN storage
    /\ storage[OtherName] = OtherTable

(* C21: a failed write still invalidates. When the storage write of update  *)
(* or truncate raised, the call raised and the query cache is empty, so no  *)
(* search is served a result cached before the call.                        *)
C21_FailedWriteInvalidates ==
    (ret.op \in Mutators /\ ret.raised = "OSError") =>
        /\ query_cache.cache = <<>>
        /\ \A cond \in IntConds :
               search(storage.state, query_cache, cond).out =
                   Matching(Partition(storage.state), cond)

(* C22: a transform is applied atomically. When the operation of an update  *)
(* raised on one of the selected documents, the call raised and the storage *)
(* holds what it held before the call, with MemoryStorage as with           *)
(* JSONStorage.                                                             *)
C22_AtomicTransform ==
    (ret.op = "update" /\ ret.raised = "TypeError") =>
        storage.state = pre.storage.state

\* the document stored under doc_id, as a sequence of none or one
Stored(st, doc_id) == SelectSeq(Partition(st), LAMBDA e : int(e.k) = doc_id)

\* both callers read before either wrote, and a wrote before b
ReadsThenWrites(a, b) ==
    /\ Len(pre.log) = 4
    /\ {pre.log[1], pre.log[2]} = {Step(a, "read"), Step(b, "read")}
    /\ pre.log[3] = Step(a, "write")
    /\ pre.log[4] = Step(b, "write")

\* what the caller's update alone makes of the state at the start
Alone(c) ==
    update(pre.storage, LRUCache(PyInt(default_query_cache_capacity)),
           ret[c].args.fields, None, ret[c].args.doc_ids).storage

(* C23: lost update under interleaving. When two callers update different   *)
(* documents and both read before either writes, the persisted state at the *)
(* end is what the second writer's update alone makes of the state at the   *)
(* start: the first writer's document is as it was at the start, and        *)
(* neither call raised.                                                     *)
C23_LostUpdate ==
    \A a, b \in Callers :
        (/\ a # b
         /\ ReadsThenWrites(a, b)
         /\ ret[a].args.doc_ids # ret[b].args.doc_ids) =>
            /\ storage = Alone(b)
            /\ \A j \in 1..Len(ret[a].args.doc_ids.list) :
                   Stored(storage, ret[a].args.doc_ids.list[j]) =
                       Stored(pre.storage, ret[a].args.doc_ids.list[j])
            /\ ret[a].raised = "no"
            /\ ret[b].raised = "no"

C23_Witness ==
    \E a, b \in Callers :
        /\ a # b
        /\ ReadsThenWrites(a, b)
        /\ ret[a].args.doc_ids # ret[b].args.doc_ids
        /\ Alone(a) # pre.storage
        /\ Alone(b) # pre.storage
        /\ storage # Alone(a)
        /\ storage = Alone(b)

\* the keys the cache held before the last call and holds no more
Evicted == CachedKeys(pre) \ CachedKeys(query_cache)

\* the entries of the cache before the last call, the key of the call left out
Others == SelectSeq(pre.cache, LAMBDA e : e.k # ret.key)

(* C24: LRU capacity bound. A cache of a finite capacity N, 0 included,     *)
(* holds at most N keys after every get, set, delete and clear. A single    *)
(* set evicts at most one key, and the key it evicts is the least recently  *)
(* used one: the oldest entry of the cache before the call, never the key   *)
(* set when N >= 1, every other entry staying in its order. A cache of      *)
(* capacity None evicts no key on a set.                                    *)
C24_CapacityBound ==
    /\ query_cache.capacity # None => Len(query_cache.cache) <= query_cache.capacity.int
    /\ ret.op = "set" =>
        /\ Cardinality(Evicted) <= 1
        /\ Evicted # {} =>
            /\ query_cache.capacity # None
            /\ Len(pre.cache) = query_cache.capacity.int
            /\ Evicted = {pre.cache[1].k}
            /\ query_cache.cache = Append(Tail(pre.cache), [k |-> ret.key, v |-> ret.value])
        /\ Evicted = {} =>
            query_cache.cache =
                IF query_cache.capacity = PyInt(0)
                THEN <<>>
                ELSE Append(Others, [k |-> ret.key, v |-> ret.value])
    /\ (ret.op = "set" /\ query_cache.capacity = None) =>
        /\ Evicted = {}
        /\ Len(query_cache.cache) >= Len(pre.cache)

\* a full cache of capacity 2 or more, a key it did not hold is set: the
\* oldest entry is gone, the others and the new one are held
C24_Witness ==
    /\ ret.op = "set"
    /\ query_cache.capacity # None
    /\ query_cache.capacity.int >= 2
    /\ Len(pre.cache) = query_cache.capacity.int
    /\ ret.key \notin CachedKeys(pre)
    /\ Evicted = {pre.cache[1].k}
    /\ Len(query_cache.cache) = query_cache.capacity.int

(* C25: LRU recency frame. A contains check leaves the keys, the values and *)
(* the recency order of the cache as they were. The delete of a key the     *)
(* cache holds removes that entry alone, the other entries keeping their    *)
(* values and their order, so the entry a later eviction takes first among  *)
(* them is the same.                                                        *)
C25_RecencyFrame ==
    /\ ret.op = "contains" =>
        /\ query_cache = pre
        /\ ret.out = (ret.key \in CachedKeys(pre))
    /\ (ret.op = "delete" /\ ret.raised = "no") =>
        /\ ret.key \in CachedKeys(pre)
        /\ query_cache.cache = Others
        /\ query_cache.capacity = pre.capacity
        /\ Others # <<>> => query_cache.cache[1] = Others[1]

\* the middle one of three entries is deleted: the oldest and the most
\* recent are left, in that order
C25_Witness ==
    /\ ret.op = "delete"
    /\ ret.raised = "no"
    /\ Len(pre.cache) = 3
    /\ pre.cache[2].k = ret.key
    /\ query_cache.cache = <<pre.cache[1], pre.cache[3]>>

(* C26: CachingMiddleware write-behind. After write(d), read() returns d    *)
(* until the next write. A call writes the underlying storage only when it  *)
(* is flush or close, or the write that brings the number of writes since   *)
(* the storage was written last to WRITE_CACHE_SIZE, and that write and a   *)
(* flush or close after a write do write it. Each such write passes the     *)
(* state written last and sets the counter to 0, and after close the        *)
(* underlying storage holds the last state passed to write.                 *)
C26_WriteBehind ==
    /\ pre.last # None =>
        CachingMiddleware_read(query_cache, storage).out = pre.last
    /\ ret.wrote =>
        \/ ret.op \in {"flush", "close"}
        \/ ret.op = "write" /\ ret.nth = WRITE_CACHE_SIZE
    /\ (ret.op = "write" /\ ret.nth = WRITE_CACHE_SIZE) => ret.wrote
    /\ (ret.op \in {"flush", "close"} /\ pre.last # None) => ret.wrote
    /\ ret.wrote =>
        /\ query_cache._cache_modified_count = 0
        /\ ret.passed = storage
        /\ pre.last # None => ret.passed = pre.last
    /\ ~ret.wrote => query_cache._cache_modified_count = pre.since
    /\ (pre.closed /\ pre.last # None) => storage = pre.last

\* the write that brings the count to WRITE_CACHE_SIZE has written the
\* underlying storage, which held another state, with the state it was given
C26_Witness ==
    /\ ret.op = "write"
    /\ ret.nth = WRITE_CACHE_SIZE
    /\ ret.wrote
    /\ storage = ret.data
    /\ query_cache._cache_modified_count = 0

ReadOnly == {"all", "search", "get", "contains", "count", "len", "iter", "clear_cache"}

\* the call went through search: search, count, and get and contains with
\* a predicate
ThroughSearch ==
    \/ ret.op \in {"search", "count"}
    \/ ret.op \in {"get", "contains"} /\ "cond" \in DOMAIN ret.args /\ ret.args.cond # None

\* no write was made and the whole persisted state is as before the call
Unwritten ==
    /\ ret.writes = 0
    /\ ret.raised = "no"
    /\ storage = pre.storage

(* C27 as claimed: all, search, get, contains, count, len, iteration and    *)
(* clear_cache make no storage write and leave the whole persisted state as *)
(* it was, and of them search alone may change the query cache.             *)
C27_OnlySearchChangesCache ==
    ret.op \in ReadOnly =>
        /\ Unwritten
        /\ ret.op # "search" => query_cache = pre.query_cache

(* C27 as amended: all, search, get, contains, count, len, iteration and    *)
(* clear_cache make no storage write and leave the whole persisted state as *)
(* it was. clear_cache empties the query cache; search and the calls that   *)
(* go through it (count, get and contains with a predicate) leave in the    *)
(* cache entries it held before and at most one new entry, that of their    *)
(* predicate; the others leave the query cache as it was.                   *)
C27_ReadOnly ==
    ret.op \in ReadOnly =>
        /\ Unwritten
        /\ query_cache.capacity = pre.query_cache.capacity
        /\ ret.op = "clear_cache" => query_cache.cache = <<>>
        /\ ThroughSearch =>
            \A i \in 1..Len(query_cache.cache) :
                \/ \E j \in 1..Len(pre.query_cache.cache) :
                       query_cache.cache[i] = pre.query_cache.cache[j]
                \/ query_cache.cache[i].k = ret.args.cond
        /\ (ret.op # "clear_cache" /\ ~ThroughSearch) => query_cache = pre.query_cache

\* count found documents, wrote nothing and left its predicate in the
\* query cache, which did not hold it
C27_Witness ==
    /\ ret.op = "count"
    /\ ret.out > 0
    /\ Unwritten
    /\ ~LRU_contains(pre.query_cache, ret.args.cond)
    /\ LRU_contains(query_cache, ret.args.cond)

(* C28: returned results are independent copies. When the caller has        *)
(* changed the list search returned to it, or a field of a Document in it,  *)
(* the persisted state is as it was and a later search with the same        *)
(* predicate returns the documents that match in persisted storage.         *)
C28_IndependentCopies ==
    (ret.op = "change" /\ ret.args.cond.cap = "yes") =>
        /\ storage = pre.storage
        /\ search(storage, query_cache, ret.args.cond).out =
               Matching(Partition(storage), ret.args.cond)

====
